---- MODULE Spec2Model ----
(***************************************************************************)
(* typed_sentinels: the Sentinel class of src/typed_sentinels/_core.py.    *)
(*                                                                         *)
(* The model follows Sentinel.__new__ statement by statement.  Every       *)
(* access to state shared between threads (the class attributes _cls_hint, *)
(* _cls_cache and _cls_lock) is one step of the calling thread, so that    *)
(* threads interleave between them as the interpreter lets them.  The      *)
(* WeakValueDictionary keeps no strong reference: an instance that no      *)
(* caller, no running call and no class attribute references can be        *)
(* reclaimed at any moment, and its cache entry goes with it.              *)
(***************************************************************************)
EXTENDS Integers, FiniteSets, Sequences, TLC

\* Bounds of the model.
NumThreads == 2
MaxObjs == 3
NumTypes == 1

Threads == 1..NumThreads
SeqThreads == {1}

(***************************************************************************)
(* Python values that can be passed as a hint.  v is an integer in every   *)
(* value so that values of different kinds can be compared.                *)
(***************************************************************************)
OBJECT == [k |-> "_OBJECT", v |-> 0]
AnyHint == [k |-> "Any", v |-> 0]
NoneVal == [k |-> "None", v |-> 0]
EllipsisVal == [k |-> "Ellipsis", v |-> 0]
TrueVal == [k |-> "bool", v |-> 1]
FalseVal == [k |-> "bool", v |-> 0]
TypeVal(n) == [k |-> "type", v |-> n]
InstVal(o) == [k |-> "inst", v |-> o]

\* The class and two subclasses of it; the second subclass is another class
\* that was also given the name Sub (defined in another module or scope).
Classes == {"Sentinel", "Sub", "SubTwin"}
BaseOnly == {"Sentinel"}
ClassIndex(c) == IF c = "Sentinel" THEN 0 ELSE IF c = "Sub" THEN 1 ELSE 2
ClassVal(c) == [k |-> "class", v |-> ClassIndex(c)]
\* cls.__name__
ClassName(c) == IF c = "SubTwin" THEN "Sub" ELSE c

\* A subclass that never assigned _cls_hint has no attribute of its own.
ABSENT == [k |-> "absent", v |-> 0]

TypeHints == {TypeVal(n) : n \in 1..NumTypes}
ReservedLiterals == {ClassVal("Sentinel"), EllipsisVal, TrueVal, FalseVal, NoneVal}
\* Keys of the concurrent specification / of the sequential one.
ConcKeys == {AnyHint, NoneVal} \cup TypeHints
SeqKeys == {AnyHint} \cup TypeHints \cup ReservedLiterals

\* Python ==: bool is a subclass of int, True == 1 and False == 0.
IsNumber(a) == a.k \in {"bool", "int"}
PyEq(a, b) == \/ a = b
              \/ IsNumber(a) /\ IsNumber(b) /\ a.v = b.v
\* Python `x in (a, b, ...)`: identity or equality with an element.
PyIn(x, S) == \E e \in S : PyEq(x, e)

VARIABLES
    cls_hint,     \* class -> value of the class attribute _cls_hint (ABSENT: inherited)
    cls_cache,    \* entries [name, hint, obj] of the WeakValueDictionary _cls_cache
    cls_lock,     \* TRUE while _cls_lock is held
    heap,         \* sequence of the Sentinel objects constructed so far
    pc,           \* thread -> position in Sentinel.__new__, or "idle"
    cls,          \* thread -> class the running call was made on
    arg,          \* thread -> argument of the running call (OBJECT: none passed)
    hint,         \* thread -> local variable hint
    lhint,        \* thread -> local variable _cls_hint
    inst,         \* thread -> local variable inst
    held,         \* thread -> objects the caller keeps a reference to
    sub_of,       \* thread -> its own subscription, while no other thread has stepped
    result        \* thread -> its last operation on a value: operands and what it gave

vars == <<cls_hint, cls_cache, cls_lock, heap, pc, cls, arg, hint, lhint, inst,
          held, sub_of, result>>

NoSub == [c |-> "", key |-> OBJECT]
NoResult ==
    [op |-> "", self |-> 0, obj |-> NoneVal, args |-> << >>, cls |-> "", val |-> NoneVal]
\* Method op of instance o gave v (a value, or the exception it raised).
Gave(op, o, v) == [NoResult EXCEPT !.op = op, !.self = o, !.val = v]

Init ==
    /\ cls_hint = [c \in Classes |-> IF c = "Sentinel" THEN OBJECT ELSE ABSENT]
    /\ cls_cache = {}
    /\ cls_lock = FALSE
    /\ heap = << >>
    /\ pc = [t \in Threads |-> "idle"]
    /\ cls = [t \in Threads |-> "Sentinel"]
    /\ arg = [t \in Threads |-> OBJECT]
    /\ hint = [t \in Threads |-> OBJECT]
    /\ lhint = [t \in Threads |-> OBJECT]
    /\ inst = [t \in Threads |-> NoneVal]
    /\ held = [t \in Threads |-> {}]
    /\ sub_of = [t \in Threads |-> NoSub]
    /\ result = [t \in Threads |-> NoResult]

(***************************************************************************)
(* Helpers                                                                 *)
(***************************************************************************)
\* Attribute lookup cls._cls_hint: the class's own attribute, else the base's.
ClsHintRead(c) == IF cls_hint[c] = ABSENT THEN cls_hint["Sentinel"] ELSE cls_hint[c]

\* Mutant: the subscribed key is not used.
ResolveIgnoreSub(h, ch) == IF h = OBJECT THEN AnyHint ELSE h

\* Lines 82-85: the hint a call works with.
Resolve(h, ch) ==
    LET h1 == IF h = OBJECT /\ ch # OBJECT THEN ch ELSE h
    IN  IF h1 = OBJECT THEN AnyHint ELSE h1

\* Entries stored under a key equal to (name, h).
EntriesFor(name, h) == {e \in cls_cache : e.name = name /\ PyEq(e.hint, h)}

\* Mutant: the key is the class name alone.
CacheGetByName(name, h) ==
    LET es == {e \in cls_cache : e.name = name /\ heap[e.obj].alive}
    IN  IF es = {} THEN NoneVal ELSE InstVal((CHOOSE e \in es : TRUE).obj)

\* WeakValueDictionary.get(key): the referent of the entry, None if there is
\* no entry or its referent is gone.
CacheGet(name, h) ==
    IF EntriesFor(name, h) = {} THEN NoneVal
    ELSE LET e == CHOOSE e \in EntriesFor(name, h) : TRUE
         IN  IF heap[e.obj].alive THEN InstVal(e.obj) ELSE NoneVal

\* Mutant: the lookup under the lock is left out, the entry is taken to be absent.
LockedGetSkipped(name, h) == NoneVal

\* Line 99: the lookup repeated under the lock.
LockedGet(name, h) == CacheGet(name, h)

\* Mutant: the new instance is not stored.
CachePutLost(name, h, o) == cls_cache

\* WeakValueDictionary.__setitem__(key, value).
CachePut(name, h, o) ==
    (cls_cache \ EntriesFor(name, h)) \cup {[name |-> name, hint |-> h, obj |-> o]}

\* Mutant: the comparison is made even when nothing was subscribed.
HasConflictUnguarded(h, ch) == ~PyEq(h, ch) /\ h # ch

\* Lines 91-92: both a subscripted and a direct hint, and they differ.
HasConflict(h, ch) ==
    /\ ~PyIn(h, {OBJECT, AnyHint})
    /\ ~PyIn(ch, {OBJECT, AnyHint})
    /\ ~PyEq(h, ch)
    /\ h # ch

\* Mutant: the isinstance test is left out.
IsInvalidHintNoInstance(h) == PyIn(h, ReservedLiterals)

\* Line 95.
IsInvalidHint(h) == h.k = "inst" \/ PyIn(h, ReservedLiterals)

\* Mutant: the slot is never reset.
SlotWasSetNever(ch) == FALSE

\* Line 80: the slot is reset only when it was found set.
SlotWasSet(ch) == ch # OBJECT

\* Instances a caller may pass as a hint: the ones it holds.
HeldVals(t) == {InstVal(o) : o \in held[t]}
\* The hints thread t may pass: the keys K and, if W, the instances it holds.
HintsOf(t, K, W) == IF W THEN K \cup HeldVals(t) ELSE K

Active == {t \in Threads : pc[t] # "idle"}

\* The subscription of thread t survives its own step; any other thread's is void.
Own(t, s) == [u \in Threads |-> IF u = t THEN s ELSE NoSub]

Locals == <<cls, arg, hint, lhint, inst>>

(***************************************************************************)
(* Sentinel.__class_getitem__ (lines 48-50)                                *)
(***************************************************************************)
Subscribe(t, c, key) ==
    /\ pc[t] = "idle"
    /\ cls_hint' = [cls_hint EXCEPT ![c] = key]
    /\ sub_of' = Own(t, [c |-> c, key |-> key])
    /\ UNCHANGED <<cls_cache, cls_lock, heap, pc, Locals, held, result>>

\* Mutant: a key that is pending is kept, the new one is dropped.
ClassGetItemFirstWins(t, c, key) ==
    /\ pc[t] = "idle"
    /\ cls_hint' = [cls_hint EXCEPT ![c] = IF ClsHintRead(c) = OBJECT THEN key ELSE @]
    /\ sub_of' = Own(t, [c |-> c, key |-> key])
    /\ result' = [result EXCEPT ![t] =
                     [NoResult EXCEPT !.op = "class_getitem", !.obj = cls_hint[c],
                                      !.cls = c, !.val = key]]
    /\ UNCHANGED <<cls_cache, cls_lock, heap, pc, Locals, held>>

\* Lines 48-50 with what the caller can see of it: x = cls[key] writes the slot
\* and gives the class (result.cls); result.obj is what the slot held before.
ClassGetItem(t, c, key) ==
    /\ pc[t] = "idle"
    /\ cls_hint' = [cls_hint EXCEPT ![c] = key]
    /\ sub_of' = Own(t, [c |-> c, key |-> key])
    /\ result' = [result EXCEPT ![t] =
                     [NoResult EXCEPT !.op = "class_getitem", !.obj = cls_hint[c],
                                      !.cls = c, !.val = key]]
    /\ UNCHANGED <<cls_cache, cls_lock, heap, pc, Locals, held>>

(***************************************************************************)
(* Sentinel.__new__ (lines 52-104)                                         *)
(***************************************************************************)
\* The call is made: cls(hint) or cls().  A call is started only while an
\* object is left for it to construct.
CallStart(t, c, a) ==
    /\ pc[t] = "idle"
    /\ Len(heap) + Cardinality(Active) < MaxObjs
    /\ pc' = [pc EXCEPT ![t] = "L80"]
    /\ cls' = [cls EXCEPT ![t] = c]
    /\ arg' = [arg EXCEPT ![t] = a]
    /\ hint' = [hint EXCEPT ![t] = a]
    /\ lhint' = [lhint EXCEPT ![t] = OBJECT]
    /\ inst' = [inst EXCEPT ![t] = NoneVal]
    /\ sub_of' = Own(t, sub_of[t])
    /\ UNCHANGED <<cls_hint, cls_cache, cls_lock, heap, held, result>>

\* Line 80: _cls_hint := cls._cls_hint
ReadSlot(t) ==
    /\ pc[t] = "L80"
    /\ lhint' = [lhint EXCEPT ![t] = ClsHintRead(cls[t])]
    /\ pc' = [pc EXCEPT ![t] = IF SlotWasSet(ClsHintRead(cls[t])) THEN "L81" ELSE "L82"]
    /\ sub_of' = Own(t, sub_of[t])
    /\ UNCHANGED <<cls_hint, cls_cache, cls_lock, heap, cls, arg, hint, inst, held, result>>

\* Line 81: cls._cls_hint = _OBJECT
ResetSlot(t) ==
    /\ pc[t] = "L81"
    /\ cls_hint' = [cls_hint EXCEPT ![cls[t]] = OBJECT]
    /\ pc' = [pc EXCEPT ![t] = "L82"]
    /\ sub_of' = Own(t, sub_of[t])
    /\ UNCHANGED <<cls_cache, cls_lock, heap, Locals, held, result>>

\* Mutant: the first lookup waits for the lock to be free.
FastPathUnderLock(t) ==
    /\ pc[t] = "L82"
    /\ ~cls_lock
    /\ LET h == Resolve(hint[t], lhint[t])
           found == CacheGet(ClassName(cls[t]), h)
       IN  /\ hint' = [hint EXCEPT ![t] = h]
           /\ inst' = [inst EXCEPT ![t] = found]
           /\ pc' = [pc EXCEPT ![t] = IF found # NoneVal THEN "L89" ELSE "L91"]
    /\ sub_of' = Own(t, sub_of[t])
    /\ UNCHANGED <<cls_hint, cls_cache, cls_lock, heap, cls, arg, lhint, held, result>>

\* Lines 82-89: resolve the hint and look the key up without the lock.
FastPath(t) ==
    /\ pc[t] = "L82"
    /\ LET h == Resolve(hint[t], lhint[t])
           found == CacheGet(ClassName(cls[t]), h)
       IN  /\ hint' = [hint EXCEPT ![t] = h]
           /\ inst' = [inst EXCEPT ![t] = found]
           /\ pc' = [pc EXCEPT ![t] = IF found # NoneVal THEN "L89" ELSE "L91"]
    /\ sub_of' = Own(t, sub_of[t])
    /\ UNCHANGED <<cls_hint, cls_cache, cls_lock, heap, cls, arg, lhint, held, result>>

\* Lines 91-95: the two checks; each sends the call to its raise statement.
Validate(t) ==
    /\ pc[t] = "L91"
    /\ pc' = [pc EXCEPT ![t] = IF HasConflict(hint[t], lhint[t]) THEN "L93"
                                ELSE IF IsInvalidHint(hint[t]) THEN "L96"
                                ELSE "L98"]
    /\ sub_of' = Own(t, sub_of[t])
    /\ UNCHANGED <<cls_hint, cls_cache, cls_lock, heap, Locals, held, result>>

\* Mutant: the raise happens with the lock taken and not given back.
RaiseHoldingLock(t) ==
    /\ pc[t] \in {"L93", "L96"}
    /\ cls_lock' = TRUE
    /\ pc' = [pc EXCEPT ![t] = "idle"]
    /\ arg' = [arg EXCEPT ![t] = OBJECT]
    /\ hint' = [hint EXCEPT ![t] = OBJECT]
    /\ lhint' = [lhint EXCEPT ![t] = OBJECT]
    /\ sub_of' = Own(t, NoSub)
    /\ UNCHANGED <<cls_hint, cls_cache, heap, cls, inst, held, result>>

\* Line 93: raise SubscriptedTypeError; line 96: raise InvalidHintError.
Raise(t) ==
    /\ pc[t] \in {"L93", "L96"}
    /\ pc' = [pc EXCEPT ![t] = "idle"]
    /\ arg' = [arg EXCEPT ![t] = OBJECT]
    /\ hint' = [hint EXCEPT ![t] = OBJECT]
    /\ lhint' = [lhint EXCEPT ![t] = OBJECT]
    /\ sub_of' = Own(t, NoSub)
    /\ UNCHANGED <<cls_hint, cls_cache, cls_lock, heap, cls, inst, held, result>>

\* Mutant: the lock excludes nobody.
AcquireUnguarded(t) ==
    /\ pc[t] = "L98"
    /\ cls_lock' = TRUE
    /\ pc' = [pc EXCEPT ![t] = "L99"]
    /\ sub_of' = Own(t, sub_of[t])
    /\ UNCHANGED <<cls_hint, cls_cache, heap, Locals, held, result>>

\* Line 98: with cls._cls_lock (acquire)
Acquire(t) ==
    /\ pc[t] = "L98"
    /\ ~cls_lock
    /\ cls_lock' = TRUE
    /\ pc' = [pc EXCEPT ![t] = "L99"]
    /\ sub_of' = Own(t, sub_of[t])
    /\ UNCHANGED <<cls_hint, cls_cache, heap, Locals, held, result>>

\* Line 99: the lookup again, under the lock.
Recheck(t) ==
    /\ pc[t] = "L99"
    /\ LET found == LockedGet(ClassName(cls[t]), hint[t])
       IN  /\ inst' = [inst EXCEPT ![t] = found]
           /\ pc' = [pc EXCEPT ![t] = IF found = NoneVal THEN "L100" ELSE "L103"]
    /\ sub_of' = Own(t, sub_of[t])
    /\ UNCHANGED <<cls_hint, cls_cache, cls_lock, heap, cls, arg, hint, lhint, held, result>>

\* Lines 100-101: a new object, its _hint set through object.__setattr__.
Construct(t) ==
    /\ pc[t] = "L100"
    /\ heap' = Append(heap, [cls |-> cls[t], hint |-> hint[t], alive |-> TRUE])
    /\ inst' = [inst EXCEPT ![t] = InstVal(Len(heap) + 1)]
    /\ pc' = [pc EXCEPT ![t] = "L102"]
    /\ sub_of' = Own(t, sub_of[t])
    /\ UNCHANGED <<cls_hint, cls_cache, cls_lock, cls, arg, hint, lhint, held, result>>

\* Line 102: cls._cls_cache[key] = inst
Insert(t) ==
    /\ pc[t] = "L102"
    /\ cls_cache' = CachePut(ClassName(cls[t]), hint[t], inst[t].v)
    /\ pc' = [pc EXCEPT ![t] = "L103"]
    /\ sub_of' = Own(t, sub_of[t])
    /\ UNCHANGED <<cls_hint, cls_lock, heap, Locals, held, result>>

\* Mutant: the with block is left without releasing the lock.
ReleaseKeepsLock(t) ==
    /\ pc[t] = "L103"
    /\ cls_lock' = TRUE
    /\ pc' = [pc EXCEPT ![t] = "L104"]
    /\ sub_of' = Own(t, sub_of[t])
    /\ UNCHANGED <<cls_hint, cls_cache, heap, Locals, held, result>>

\* End of the with block: the lock is released.
Release(t) ==
    /\ pc[t] = "L103"
    /\ cls_lock' = FALSE
    /\ pc' = [pc EXCEPT ![t] = "L104"]
    /\ sub_of' = Own(t, sub_of[t])
    /\ UNCHANGED <<cls_hint, cls_cache, heap, Locals, held, result>>

\* Lines 89 and 104: return inst.  The caller keeps the reference it is given.
Return(t) ==
    /\ pc[t] \in {"L89", "L104"}
    /\ held' = [held EXCEPT ![t] = @ \cup {inst[t].v}]
    /\ pc' = [pc EXCEPT ![t] = "idle"]
    /\ arg' = [arg EXCEPT ![t] = OBJECT]
    /\ hint' = [hint EXCEPT ![t] = OBJECT]
    /\ lhint' = [lhint EXCEPT ![t] = OBJECT]
    /\ inst' = [inst EXCEPT ![t] = NoneVal]
    /\ sub_of' = Own(t, NoSub)
    /\ UNCHANGED <<cls_hint, cls_cache, cls_lock, heap, cls, result>>

(***************************************************************************)
(* References and the weak cache                                           *)
(***************************************************************************)
\* A caller drops a reference it holds.
Drop(t, o) ==
    /\ pc[t] = "idle"
    /\ o \in held[t]
    /\ held' = [held EXCEPT ![t] = @ \ {o}]
    /\ UNCHANGED <<cls_hint, cls_cache, cls_lock, heap, pc, Locals, sub_of, result>>

\* Something still refers to object o strongly.
Referenced(o) ==
    \/ \E t \in Threads : o \in held[t]
    \/ \E t \in Threads : InstVal(o) \in {inst[t], arg[t], hint[t], lhint[t]}
    \/ \E c \in Classes : cls_hint[c] = InstVal(o)

\* Mutant: the object goes, its entry stays.
ReclaimLeavesEntry(o) ==
    /\ o \in 1..Len(heap)
    /\ heap[o].alive
    /\ ~Referenced(o)
    /\ heap' = [heap EXCEPT ![o].alive = FALSE]
    /\ UNCHANGED <<cls_hint, cls_cache, cls_lock, pc, Locals, held, sub_of, result>>

\* The object is reclaimed; the weak reference's callback removes its entry.
Reclaim(o) ==
    /\ o \in 1..Len(heap)
    /\ heap[o].alive
    /\ ~Referenced(o)
    /\ heap' = [heap EXCEPT ![o].alive = FALSE]
    /\ cls_cache' = {e \in cls_cache : e.obj # o}
    /\ UNCHANGED <<cls_hint, cls_lock, pc, Locals, held, sub_of, result>>

(***************************************************************************)
(* Methods of an instance (lines 106-155).  self is an instance the caller *)
(* holds; what the method gives back is kept in result.                    *)
(***************************************************************************)
\* Mutant: subscription gives the item asked for.
GetItemOfKey(self, key) == key

\* Lines 106-107 and 109-110.
__getitem__(self, key) == self
__call__(self, args) == self
\* Mutant: a copy is another object.
CopyFresh(self) == InstVal(self.v + 1)

\* Lines 137-138 and 140-141.
__copy__(self) == self
__deepcopy__(self, memo) == self
\* Mutant: the class to call is always Sentinel.
ReduceBaseClass(self) == [cls |-> "Sentinel", hint |-> heap[self.v].hint]

\* Lines 143-144: (self.__class__, (self._hint,)); 146-147: the same.
__reduce__(self) == [cls |-> heap[self.v].cls, hint |-> heap[self.v].hint]
__reduce_ex__(self, protocol) == __reduce__(self)

\* The exception lines 151 and 155 raise.
AttributeError == [k |-> "AttributeError", v |-> 0]
\* The attributes a caller may try: the two slots, the property, any other.
AttrNames == {"_hint", "__weakref__", "hint", "other"}
\* The pickle protocols.
Protocols == {2, 5}

\* Each method is called by a thread on an instance it holds; result keeps the
\* value the method returned or the exception it raised.
\* s[key]
\* Mutant: subscripting an instance writes the slot, as subscripting the class does.
GetItemWritesSlot(t, o, key) ==
    /\ pc[t] = "idle"
    /\ o \in held[t]
    /\ cls_hint' = [cls_hint EXCEPT ![heap[o].cls] = key]
    /\ result' = [result EXCEPT ![t] = Gave("getitem", o, __getitem__(InstVal(o), key))]
    /\ UNCHANGED <<cls_cache, cls_lock, heap, pc, Locals, held, sub_of>>

GetItem(t, o, key) ==
    /\ pc[t] = "idle"
    /\ o \in held[t]
    /\ result' = [result EXCEPT ![t] = Gave("getitem", o, __getitem__(InstVal(o), key))]
    /\ UNCHANGED <<cls_hint, cls_cache, cls_lock, heap, pc, Locals, held, sub_of>>

\* s(args)
CallInstance(t, o, args) ==
    /\ pc[t] = "idle"
    /\ o \in held[t]
    /\ result' = [result EXCEPT ![t] = Gave("call", o, __call__(InstVal(o), args))]
    /\ UNCHANGED <<cls_hint, cls_cache, cls_lock, heap, pc, Locals, held, sub_of>>

\* copy.copy(s)
Copy(t, o) ==
    /\ pc[t] = "idle"
    /\ o \in held[t]
    /\ result' = [result EXCEPT ![t] = Gave("copy", o, __copy__(InstVal(o)))]
    /\ UNCHANGED <<cls_hint, cls_cache, cls_lock, heap, pc, Locals, held, sub_of>>

\* copy.deepcopy(s)
DeepCopy(t, o) ==
    /\ pc[t] = "idle"
    /\ o \in held[t]
    /\ result' = [result EXCEPT ![t] = Gave("deepcopy", o, __deepcopy__(InstVal(o), << >>))]
    /\ UNCHANGED <<cls_hint, cls_cache, cls_lock, heap, pc, Locals, held, sub_of>>

\* s.__reduce__(): the class to call and the argument to call it with.
Reduce(t, o) ==
    /\ pc[t] = "idle"
    /\ o \in held[t]
    /\ result' = [result EXCEPT ![t] =
                     [Gave("reduce", o, __reduce__(InstVal(o)).hint)
                        EXCEPT !.cls = __reduce__(InstVal(o)).cls]]
    /\ UNCHANGED <<cls_hint, cls_cache, cls_lock, heap, pc, Locals, held, sub_of>>

\* s.__reduce_ex__(protocol)
ReduceEx(t, o, protocol) ==
    /\ pc[t] = "idle"
    /\ o \in held[t]
    /\ result' = [result EXCEPT ![t] =
                     [Gave("reduce_ex", o, __reduce_ex__(InstVal(o), protocol).hint)
                        EXCEPT !.cls = __reduce_ex__(InstVal(o), protocol).cls]]
    /\ UNCHANGED <<cls_hint, cls_cache, cls_lock, heap, pc, Locals, held, sub_of>>

\* Mutant: the assignment is carried out as object.__setattr__ would.
SetAttrStores(t, o, name, value) ==
    /\ pc[t] = "idle"
    /\ o \in held[t]
    /\ heap' = IF name = "_hint" THEN [heap EXCEPT ![o].hint = value] ELSE heap
    /\ result' = [result EXCEPT ![t] = Gave("setattr", o, NoneVal)]
    /\ UNCHANGED <<cls_hint, cls_cache, cls_lock, pc, Locals, held, sub_of>>

\* Lines 149-151: setattr(s, name, value) raises and stores nothing.
SetAttr(t, o, name, value) ==
    /\ pc[t] = "idle"
    /\ o \in held[t]
    /\ result' = [result EXCEPT ![t] = Gave("setattr", o, AttributeError)]
    /\ UNCHANGED <<cls_hint, cls_cache, cls_lock, heap, pc, Locals, held, sub_of>>

\* Lines 153-155: delattr(s, name) raises and removes nothing.
DelAttr(t, o, name) ==
    /\ pc[t] = "idle"
    /\ o \in held[t]
    /\ result' = [result EXCEPT ![t] = Gave("delattr", o, AttributeError)]
    /\ UNCHANGED <<cls_hint, cls_cache, cls_lock, heap, pc, Locals, held, sub_of>>

\* Lines 43-46: s.hint
ReadHint(t, o) ==
    /\ pc[t] = "idle"
    /\ o \in held[t]
    /\ result' = [result EXCEPT ![t] = Gave("hint", o, heap[o].hint)]
    /\ UNCHANGED <<cls_hint, cls_cache, cls_lock, heap, pc, Locals, held, sub_of>>

\* copyreg / pickle.loads: the reduce value (cls, (hint,)) a caller has got is
\* applied, which is the call cls(hint) of lines 52-104.
Reconstruct(t) ==
    /\ pc[t] = "idle"
    /\ result[t].op \in {"reduce", "reduce_ex"}
    /\ Len(heap) + Cardinality(Active) < MaxObjs
    /\ pc' = [pc EXCEPT ![t] = "L80"]
    /\ cls' = [cls EXCEPT ![t] = result[t].cls]
    /\ arg' = [arg EXCEPT ![t] = result[t].val]
    /\ hint' = [hint EXCEPT ![t] = result[t].val]
    /\ lhint' = [lhint EXCEPT ![t] = OBJECT]
    /\ inst' = [inst EXCEPT ![t] = NoneVal]
    /\ sub_of' = Own(t, sub_of[t])
    /\ result' = [result EXCEPT ![t].op = "reconstruct"]
    /\ UNCHANGED <<cls_hint, cls_cache, cls_lock, heap, held>>

(***************************************************************************)
(* Truth value, hash, equality (lines 126-135) and is_sentinel (158-178)   *)
(***************************************************************************)
IntVal(n) == [k |-> "int", v |-> n]
\* A Python bool as a value.
BoolVal(b) == IF b THEN TrueVal ELSE FalseVal
\* What __eq__ returns when it does not know the other operand.
NotImplemented == [k |-> "NotImplemented", v |-> 0]

\* issubclass(c, d) for the classes of the model; isinstance(x, d).
IsSubclass(c, d) == c = d \/ d = "Sentinel"
IsInstance(x, d) == x.k = "inst" /\ IsSubclass(heap[x.v].cls, d)

\* Mutant: a sentinel is truthy, as an object without __bool__ is.
BoolDefault(self) == TrueVal

\* Lines 129-130.
__bool__(self) == FalseVal

\* hash(x) of a value that is used as a hint: equal numbers hash alike.
HashOfValue(x) ==
    IF IsNumber(x) THEN x.v
    ELSE IF x.k = "type" THEN 10 + x.v
    ELSE IF x.k = "class" THEN 20 + x.v
    ELSE IF x.k = "Any" THEN 30
    ELSE IF x.k = "None" THEN 31
    ELSE 32
\* hash((c, x)) of a pair of a class and a value: set by the two hashes.
HashOfPair(c, x) == 100 * (1 + ClassIndex(c)) + HashOfValue(x)

\* Lines 126-127: hash((self.__class__, self._hint))
__hash__(self) == IntVal(HashOfPair(heap[self.v].cls, heap[self.v].hint))

\* Mutant: an instance of a subclass with an equal hint is taken as equal.
EqIgnoresClass(self, other) ==
    IF ~IsInstance(other, heap[self.v].cls) THEN NotImplemented
    ELSE BoolVal(PyEq(heap[self.v].hint, heap[other.v].hint))

\* Lines 132-135.
__eq__(self, other) ==
    IF ~IsInstance(other, heap[self.v].cls) THEN NotImplemented
    ELSE BoolVal(/\ heap[self.v].cls = heap[other.v].cls
                 /\ PyEq(heap[self.v].hint, heap[other.v].hint))

\* a == b where a is an instance: a.__eq__(b), then the reflected b.__eq__(a)
\* (NotImplemented from a value that is no instance), then identity.
Equals(a, b) ==
    LET r1 == __eq__(a, b)
        r2 == IF b.k = "inst" THEN __eq__(b, a) ELSE NotImplemented
    IN  IF r1 # NotImplemented THEN r1
        ELSE IF r2 # NotImplemented THEN r2
        ELSE BoolVal(a = b)

\* Mutant: the expected key is not looked at.
IsSentinelAnyHint(obj, typ) == BoolVal(IsInstance(obj, "Sentinel"))

\* Lines 175-178; typ = None is the default, "no key expected".
is_sentinel(obj, typ) ==
    IF typ # NoneVal /\ IsInstance(obj, "Sentinel")
    THEN BoolVal(PyEq(heap[obj.v].hint, typ))
    ELSE BoolVal(IsInstance(obj, "Sentinel"))

\* Values that are no instance of Sentinel.
NonSentinels == {ClassVal("Sentinel"), NoneVal, AnyHint} \cup TypeHints

\* The values of the model, and those thread t has at hand to compare and test.
Values == {InstVal(o) : o \in 1..MaxObjs} \cup NonSentinels
Operands(t) == HeldVals(t) \cup NonSentinels

\* bool(s)
Bool(t, o) ==
    /\ pc[t] = "idle"
    /\ o \in held[t]
    /\ result' = [result EXCEPT ![t] = Gave("bool", o, __bool__(InstVal(o)))]
    /\ UNCHANGED <<cls_hint, cls_cache, cls_lock, heap, pc, Locals, held, sub_of>>

\* hash(s)
Hash(t, o) ==
    /\ pc[t] = "idle"
    /\ o \in held[t]
    /\ result' = [result EXCEPT ![t] = Gave("hash", o, __hash__(InstVal(o)))]
    /\ UNCHANGED <<cls_hint, cls_cache, cls_lock, heap, pc, Locals, held, sub_of>>

\* s == other
Eq(t, o, other) ==
    /\ pc[t] = "idle"
    /\ o \in held[t]
    /\ other \in Operands(t)
    /\ result' = [result EXCEPT ![t] =
                     [Gave("eq", o, Equals(InstVal(o), other)) EXCEPT !.obj = other]]
    /\ UNCHANGED <<cls_hint, cls_cache, cls_lock, heap, pc, Locals, held, sub_of>>

\* Line 158: typ is None unless the caller passes it.
TypOf(args) == IF args = << >> THEN NoneVal ELSE args[1]
\* is_sentinel(obj) has args = << >>, is_sentinel(obj, typ) has args = <<typ>>.
ArgLists(K) == {<< >>} \cup {<<typ>> : typ \in K}

\* is_sentinel(obj) and is_sentinel(obj, typ)
IsSentinel(t, obj, args) ==
    /\ pc[t] = "idle"
    /\ obj \in Operands(t)
    /\ result' = [result EXCEPT ![t] =
                     [NoResult EXCEPT !.op = "is_sentinel", !.obj = obj, !.args = args,
                                      !.val = is_sentinel(obj, TypOf(args))]]
    /\ UNCHANGED <<cls_hint, cls_cache, cls_lock, heap, pc, Locals, held, sub_of>>

(***************************************************************************)
(* Specifications                                                          *)
(***************************************************************************)
\* Class subscription and the reset of the slot it writes.
SubSteps(T, C, K, W) ==
    \/ \E t \in T, c \in C : \E key \in HintsOf(t, K, W) : Subscribe(t, c, key)
    \/ \E t \in T : ResetSlot(t)

\* The creation call.
CallSteps(T, C, K, W) ==
    \/ \E t \in T, c \in C : \E a \in {OBJECT} \cup HintsOf(t, K, W) : CallStart(t, c, a)
    \/ \E t \in T : ReadSlot(t)
    \/ \E t \in T : FastPath(t)
    \/ \E t \in T : Validate(t)
    \/ \E t \in T : Raise(t)
    \/ \E t \in T : Acquire(t)
    \/ \E t \in T : Recheck(t)
    \/ \E t \in T : Construct(t)
    \/ \E t \in T : Insert(t)
    \/ \E t \in T : Release(t)
    \/ \E t \in T : Return(t)

\* Callers dropping references, and reclamation.
RefSteps(T) ==
    \/ \E t \in T, o \in 1..MaxObjs : Drop(t, o)
    \/ \E o \in 1..MaxObjs : Reclaim(o)

\* Threads subscribing, calling and dropping references concurrently.
Next == SubSteps(Threads, BaseOnly, ConcKeys, FALSE)
           \/ CallSteps(Threads, BaseOnly, ConcKeys, FALSE)
           \/ RefSteps(Threads)
Spec == Init /\ [][Next]_vars

\* One thread, every kind of key, the instances it holds among them.
NextSeq == SubSteps(SeqThreads, BaseOnly, SeqKeys, TRUE)
              \/ CallSteps(SeqThreads, BaseOnly, SeqKeys, TRUE)
              \/ RefSteps(SeqThreads)
SpecSeq == Init /\ [][NextSeq]_vars

\* Threads that never subscribe: the slot is never written, hence never reset.
NextExplicit == CallSteps(Threads, BaseOnly, ConcKeys, FALSE) \/ RefSteps(Threads)
SpecExplicit == Init /\ [][NextExplicit]_vars

\* Threads that keep every result they are given.
NextRetain == SubSteps(Threads, BaseOnly, ConcKeys, FALSE)
                 \/ CallSteps(Threads, BaseOnly, ConcKeys, FALSE)
SpecRetain == Init /\ [][NextRetain]_vars

\* The methods of the instances a thread holds.
InstSteps(T, K) ==
    \/ \E t \in T, o \in 1..MaxObjs, key \in K : GetItem(t, o, key)
    \/ \E t \in T, o \in 1..MaxObjs, args \in K : CallInstance(t, o, args)
    \/ \E t \in T, o \in 1..MaxObjs : Copy(t, o)
    \/ \E t \in T, o \in 1..MaxObjs : DeepCopy(t, o)
    \/ \E t \in T, o \in 1..MaxObjs : Reduce(t, o)
    \/ \E t \in T, o \in 1..MaxObjs, protocol \in Protocols : ReduceEx(t, o, protocol)
    \/ \E t \in T, o \in 1..MaxObjs, name \in AttrNames, value \in K : SetAttr(t, o, name, value)
    \/ \E t \in T, o \in 1..MaxObjs, name \in AttrNames : DelAttr(t, o, name)

\* One thread working with the class, its subclasses and the instances it is
\* given and keeps; nothing is subscribed.
NextInst == CallSteps(SeqThreads, Classes, ConcKeys, FALSE)
               \/ InstSteps(SeqThreads, ConcKeys)
SpecInst == Init /\ [][NextInst]_vars

\* Truth value, hash and comparison of the instances a thread holds, and
\* is_sentinel of them and of other values.
ValueSteps(T, K) ==
    \/ \E t \in T, o \in 1..MaxObjs : Bool(t, o)
    \/ \E t \in T, o \in 1..MaxObjs : Hash(t, o)
    \/ \E t \in T, o \in 1..MaxObjs, other \in Values : Eq(t, o, other)
    \/ \E t \in T, obj \in Values, args \in ArgLists(K) : IsSentinel(t, obj, args)

\* One thread creating instances of the class and its subclasses, keeping
\* them, and comparing and testing them.
NextValue == CallSteps(SeqThreads, Classes, ConcKeys, FALSE)
                \/ ValueSteps(SeqThreads, ConcKeys)
SpecValue == Init /\ [][NextValue]_vars

\* One thread subscribes and calls; the others only call, with or without an
\* argument, and never subscribe.
NextOneSubscriber ==
    \/ \E t \in SeqThreads, c \in BaseOnly, key \in ConcKeys : Subscribe(t, c, key)
    \/ \E t \in Threads : ResetSlot(t)
    \/ CallSteps(Threads, BaseOnly, ConcKeys, FALSE)
SpecOneSubscriber == Init /\ [][NextOneSubscriber]_vars

\* The class and one subclass; keys that are valid or are one of the classes.
BaseAndSub == {"Sentinel", "Sub"}
ClassKeys == {AnyHint} \cup TypeHints \cup {ClassVal(c) : c \in BaseAndSub}

\* One thread subscribing and calling on the class and on a subclass, keeping
\* what it is given; the classes and the instances it holds are among the
\* arguments of its calls.
NextSub == SubSteps(SeqThreads, BaseAndSub, ClassKeys, FALSE)
              \/ CallSteps(SeqThreads, BaseAndSub, ClassKeys, TRUE)
SpecSub == Init /\ [][NextSub]_vars

\* One thread subscribing, creating, dropping, taking the reduce value of an
\* instance it holds and reconstructing from it later.
NextPickle ==
    \/ SubSteps(SeqThreads, BaseOnly, ConcKeys, FALSE)
    \/ CallSteps(SeqThreads, BaseOnly, ConcKeys, FALSE)
    \/ RefSteps(SeqThreads)
    \/ \E t \in SeqThreads, o \in 1..MaxObjs : Reduce(t, o)
    \/ \E t \in SeqThreads, o \in 1..MaxObjs, protocol \in Protocols : ReduceEx(t, o, protocol)
    \/ \E t \in SeqThreads : Reconstruct(t)
SpecPickle == Init /\ [][NextPickle]_vars

\* One thread subscribing, creating, and using the instances it holds in every
\* way an instance can be used.
NextFrame ==
    \/ SubSteps(SeqThreads, BaseOnly, ConcKeys, FALSE)
    \/ CallSteps(SeqThreads, BaseOnly, ConcKeys, FALSE)
    \/ InstSteps(SeqThreads, ConcKeys)
    \/ ValueSteps(SeqThreads, ConcKeys)
    \/ \E t \in SeqThreads, o \in 1..MaxObjs : ReadHint(t, o)
SpecFrame == Init /\ [][NextFrame]_vars

\* One thread subscribing, several times in a row or not, and calling; what
\* each subscription gave and overwrote is kept.
NextSlot ==
    \/ \E t \in SeqThreads, c \in BaseOnly, key \in ConcKeys : ClassGetItem(t, c, key)
    \/ \E t \in SeqThreads : ResetSlot(t)
    \/ CallSteps(SeqThreads, BaseOnly, ConcKeys, FALSE)
SpecSlot == Init /\ [][NextSlot]_vars

\* Small integers as keys, next to every other kind of key.
MaxInt == 2
IntKeys == {IntVal(n) : n \in 0..MaxInt}

\* One thread calling with an argument of every kind, the integers and the
\* instances it holds among them, and dropping what it was given; nothing is
\* subscribed.
NextInt == CallSteps(SeqThreads, BaseOnly, SeqKeys \cup IntKeys, TRUE)
              \/ RefSteps(SeqThreads)
SpecInt == Init /\ [][NextInt]_vars

\* A step of the running call of thread t, the wait for the lock apart.
Step(t) ==
    \/ ReadSlot(t) \/ ResetSlot(t) \/ FastPath(t) \/ Validate(t) \/ Raise(t)
    \/ Recheck(t) \/ Construct(t) \/ Insert(t) \/ Release(t) \/ Return(t)

\* Fair scheduling of threads that keep their results: a thread that can take
\* a step of its call takes it in the end, and a thread waiting for the lock
\* gets it if the lock is free again and again.
Fairness == \A t \in Threads : WF_vars(Step(t)) /\ SF_vars(Acquire(t))
SpecFair == SpecRetain /\ Fairness

\* Reclamation is not put off forever: an object nothing refers to goes.
SpecCollect == SpecExplicit /\ \A o \in 1..MaxObjs : WF_vars(Reclaim(o))

(***************************************************************************)
(* Properties                                                              *)
(*                                                                         *)
(* A call ends at one of four statements: the return of line 89 or 104, or *)
(* the raise of line 93 or 96.  A thread at one of them still has the      *)
(* call's argument and local variables, so what a call does is stated of   *)
(* the states in which a thread stands there.                              *)
(***************************************************************************)
\* The keys the documentation of __new__ lists as rejected.
ReservedKey(h) ==
    h.k = "inst" \/ h \in {ClassVal("Sentinel"), EllipsisVal, TrueVal, FalseVal, NoneVal}
ValidKey(h) == h \notin {OBJECT, ABSENT} /\ ~ReservedKey(h)

\* The key the spec says a call resolves to: the argument if one was passed,
\* else the subscribed key the call read, else Any.
EffectiveKey(a, s) == IF a # OBJECT THEN a ELSE IF s # OBJECT THEN s ELSE AnyHint

Objects == 1..Len(heap)
\* Objects o1 and o2 stand for the same (class, key).
SameKey(o1, o2) ==
    ClassName(heap[o1].cls) = ClassName(heap[o2].cls) /\ PyEq(heap[o1].hint, heap[o2].hint)
ConstructedFor(c, h) == {o \in Objects : heap[o].cls = c /\ heap[o].hint = h}

\* Thread t is about to return inst / to raise / either.
Returning(t) == pc[t] \in {"L89", "L104"}
RaisingConflict(t) == pc[t] = "L93"
RaisingInvalid(t) == pc[t] = "L96"
Ending(t) == Returning(t) \/ RaisingConflict(t) \/ RaisingInvalid(t)
\* The object thread t is about to return is the one held for (its class, h),
\* if one is held by anybody.
ReturnsHeldFor(t, h) ==
    \A u \in Threads : \A o \in held[u] :
        (heap[o].cls = cls[t] /\ heap[o].hint = h) => inst[t] = InstVal(o)

\* C1: a call that returns an instance for a key returns the very object that
\* some caller still holds for that key, whatever calls, drops and
\* reclamations came before.
C1_OrderingGuarantee ==
    \A t \in Threads : Returning(t) => ReturnsHeldFor(t, hint[t])

\* A thread that missed on the fast path and went through the lock is about to
\* return the object another thread holds, after an earlier object was reclaimed.
C1_Witness ==
    \E t, u \in Threads : \E o \in held[u] :
        /\ t # u
        /\ pc[t] = "L104"
        /\ inst[t] = InstVal(o)
        /\ \E d \in Objects : ~heap[d].alive

\* C2: while every thread keeps what it is given, at most one object is ever
\* constructed for a key, and every result for the key is that object.
C2_ColdKeyRace ==
    /\ \A o1, o2 \in Objects : SameKey(o1, o2) => o1 = o2
    /\ \A t \in Threads : Returning(t) => ConstructedFor(cls[t], hint[t]) = {inst[t].v}

\* Both threads missed on the fast path for the same key, both went through
\* the locked section, and both are about to return the same object.
C2_Witness ==
    \E t, u \in Threads :
        /\ t # u
        /\ pc[t] = "L104" /\ pc[u] = "L104"
        /\ inst[t] = inst[u]

\* C3: no two distinct instances that callers hold stand for the same
\* (class, key).
C3_SingletonPerKey ==
    \A t, u \in Threads : \A o1 \in held[t] : \A o2 \in held[u] :
        SameKey(o1, o2) => o1 = o2

\* Two threads hold the same instance of a key for which an earlier instance
\* was reclaimed.
C3_Witness ==
    \E t, u \in Threads : \E o \in held[t] \cap held[u] : \E d \in Objects :
        /\ t # u
        /\ ~heap[d].alive
        /\ SameKey(d, o)

\* C4: a call whose key is a reserved one (the Sentinel class, an instance,
\* Ellipsis, True, False, None), passed as the argument with nothing
\* subscribed or subscribed with no argument, ends raising InvalidHintError,
\* never returning.
C4_InvalidKeyRejected ==
    \A t \in SeqThreads :
        ( /\ Ending(t)
          /\ \/ ReservedKey(arg[t]) /\ lhint[t] = OBJECT
             \/ arg[t] = OBJECT /\ ReservedKey(lhint[t]) )
        => RaisingInvalid(t)

\* A call given an instance the caller holds as its key raises, and so can a
\* call for each reserved literal.
C4_Witness ==
    /\ RaisingInvalid(1)
    /\ arg[1].k = "inst" /\ arg[1].v \in held[1]
    /\ lhint[1] = OBJECT

\* C5 (as claimed): a call that read the subscribed key A and was passed an
\* argument B that neither is nor equals A ends raising SubscriptedTypeError.
C5_ConflictAlwaysRaises ==
    \A t \in SeqThreads :
        ( /\ Ending(t)
          /\ lhint[t] # OBJECT /\ arg[t] # OBJECT
          /\ ~PyEq(arg[t], lhint[t]) )
        => RaisingConflict(t)

\* C5 (as claimed, for keys other than Any): the same, which fails when an
\* instance for B is in the cache.
C5_ConflictRaisesNotAny ==
    \A t \in SeqThreads :
        ( /\ Ending(t)
          /\ lhint[t] \notin {OBJECT, AnyHint} /\ arg[t] \notin {OBJECT, AnyHint}
          /\ ~PyEq(arg[t], lhint[t]) )
        => RaisingConflict(t)

\* C6: in a single thread, a call that read the subscribed valid key A and was
\* passed nothing or A returns an instance whose hint is A, the one the
\* caller already holds for A if it holds one.
C6_KeyFormsEquivalent ==
    \A t \in SeqThreads :
        ( /\ Ending(t)
          /\ ValidKey(lhint[t])
          /\ arg[t] \in {OBJECT, lhint[t]} )
        => /\ Returning(t)
           /\ heap[inst[t].v].hint = lhint[t]
           /\ ReturnsHeldFor(t, lhint[t])

\* Sentinel[A]() is about to return the instance the caller holds, got from
\* the cache.
C6_Witness ==
    /\ pc[1] = "L89"
    /\ arg[1] = OBJECT
    /\ lhint[1] \in TypeHints
    /\ inst[1].v \in held[1]

\* C7: a call that returns an instance returns one whose hint is the effective
\* key; a call with no argument that read an empty slot returns the instance
\* held for Any.
C7_KeyResolution ==
    \A t \in Threads : Returning(t) =>
        /\ heap[inst[t].v].hint = EffectiveKey(arg[t], lhint[t])
        /\ (arg[t] = OBJECT /\ lhint[t] = OBJECT) => ReturnsHeldFor(t, AnyHint)

\* A call passed a key while another one was subscribed is about to return,
\* and so is a call with neither while an instance for Any is held.
C7_Witness ==
    \E t, u \in Threads :
        /\ t # u
        /\ Returning(t) /\ arg[t] \in TypeHints /\ lhint[t] = AnyHint
        /\ Returning(u) /\ arg[u] = OBJECT /\ lhint[u] = OBJECT
        /\ \E o \in held[t] : heap[o].hint = AnyHint

\* C8: in a single thread, the slot is empty when a call ends, however it
\* ends, and a call made with no subscription since the last call has read
\* an empty slot and resolves to its argument or Any.
C8_PendingKeyConsumed ==
    \A t \in SeqThreads :
        /\ Ending(t) => cls_hint[cls[t]] = OBJECT
        /\ (pc[t] \notin {"idle", "L80"} /\ sub_of[t] = NoSub) => lhint[t] = OBJECT
        /\ (Ending(t) /\ sub_of[t] = NoSub) => hint[t] = EffectiveKey(arg[t], OBJECT)

\* A call that read a subscribed key is raising SubscriptedTypeError, and
\* the slot is empty.
C8_Witness ==
    /\ RaisingConflict(1)
    /\ lhint[1] # OBJECT
    /\ cls_hint["Sentinel"] = OBJECT

\* C9: when no thread ever subscribes, a call passed a valid key returns an
\* instance whose hint is that key.
C9_ExplicitFormSafe ==
    \A t \in Threads :
        (Ending(t) /\ ValidKey(arg[t])) =>
            Returning(t) /\ heap[inst[t].v].hint = arg[t]

\* Two threads are ending calls for the same valid key, one of them past the
\* locked section.
C9_Witness ==
    \E t, u \in Threads :
        /\ t # u
        /\ pc[t] = "L104" /\ Returning(u)
        /\ ValidKey(arg[t]) /\ arg[u] = arg[t]

\* C10: a call with no argument made by the thread that subscribed k on that
\* class, with no step of another thread's subscription or call since the
\* subscription, returns an instance whose hint is k, or raises
\* InvalidHintError if k is reserved.
C10_SubscriptionUndisturbed ==
    \A t \in Threads :
        ( /\ Ending(t)
          /\ sub_of[t] # NoSub /\ sub_of[t].c = cls[t]
          /\ arg[t] = OBJECT )
        => IF ReservedKey(sub_of[t].key)
           THEN RaisingInvalid(t)
           ELSE Returning(t) /\ heap[inst[t].v].hint = sub_of[t].key

\* The subscribing thread is about to return while another thread is in the
\* middle of a call of its own.
C10_Witness ==
    \E t, u \in Threads :
        /\ t # u
        /\ Returning(t)
        /\ sub_of[t] # NoSub /\ sub_of[t].key \in TypeHints
        /\ arg[t] = OBJECT
        /\ pc[u] \notin {"idle", "L80"}

\* C11: under fair scheduling every call that was started ends, returning or
\* raising, and the lock, once taken, is released again: no thread waits for
\* it forever.
C11_CallsTerminate ==
    /\ \A t \in Threads : (pc[t] # "idle") ~> (pc[t] = "idle")
    /\ cls_lock ~> ~cls_lock

\* A thread waits for the lock while the other one holds it, between its
\* re-check and its release.
C11_Witness ==
    \E t, u \in Threads :
        /\ t # u
        /\ pc[t] = "L98"
        /\ pc[u] \in {"L100", "L102", "L103"}
        /\ cls_lock

\* Thread t is inside the with block of lines 98-102.
InLock(t) == pc[t] \in {"L99", "L100", "L102", "L103"}

\* C12: a call that raises has taken nothing from the cache, constructed
\* nothing and is outside the with block; the lock is held exactly while some
\* thread is inside the with block; no entry is ever stored under a rejected
\* key; and the calls that succeed beside it still construct one object per
\* key.
C12_ExceptionSafety ==
    /\ \A t \in Threads :
        (RaisingConflict(t) \/ RaisingInvalid(t)) => inst[t] = NoneVal /\ ~InLock(t)
    /\ cls_lock <=> \E t \in Threads : InLock(t)
    /\ \A e \in cls_cache : ValidKey(e.hint)
    /\ \A o1, o2 \in Objects : SameKey(o1, o2) => o1 = o2

\* A call is raising InvalidHintError while the other thread, inside the with
\* block, has just stored the object it constructed.
C12_Witness ==
    \E t, u \in Threads :
        /\ t # u
        /\ RaisingInvalid(t)
        /\ pc[u] = "L103" /\ cls_lock
        /\ \E e \in cls_cache : InstVal(e.obj) = inst[u]

\* C13: the first lookup can be made whoever holds the lock; a call whose
\* first lookup found a live entry stands at the return of line 89 with that
\* entry's object, outside the with block, and can return whoever holds the
\* lock; a call that waits for the lock or has just taken it found nothing.
C13_LockFreeFastPath ==
    \A t \in Threads :
        /\ pc[t] = "L82" => ENABLED FastPath(t)
        /\ pc[t] = "L89" =>
            /\ inst[t] # NoneVal /\ heap[inst[t].v].alive
            /\ [name |-> ClassName(cls[t]), hint |-> hint[t], obj |-> inst[t].v] \in cls_cache
            /\ ENABLED Return(t)
        /\ pc[t] \in {"L98", "L99"} => inst[t] = NoneVal

\* A call is about to return, from line 89, the object that the thread
\* holding the lock has just stored and not yet left the with block with.
C13_Witness ==
    \E t, u \in Threads :
        /\ t # u
        /\ pc[t] = "L89"
        /\ pc[u] = "L103" /\ cls_lock
        /\ inst[t] = inst[u]

\* Some object constructed for (c, h) has been reclaimed.
ReclaimedFor(c, h) == \E d \in Objects : ~heap[d].alive /\ heap[d].cls = c /\ heap[d].hint = h

\* C14: when no thread subscribes, a call Sentinel(K) for a valid key K made
\* after an instance for K was reclaimed ends returning, never raising; what
\* it returns is a live instance whose hint is K, none of the reclaimed ones,
\* and the one instance any caller holds for K.  Callers never hold two
\* instances for one key.
C14_WeakCleanup ==
    /\ \A t \in Threads :
        (Ending(t) /\ ValidKey(arg[t]) /\ ReclaimedFor(cls[t], arg[t])) =>
            /\ Returning(t)
            /\ heap[inst[t].v].alive
            /\ heap[inst[t].v].hint = arg[t]
            /\ ReturnsHeldFor(t, arg[t])
    /\ \A t, u \in Threads : \A o1 \in held[t] : \A o2 \in held[u] :
        (heap[o1].alive /\ SameKey(o1, o2)) => o1 = o2

\* A second call for K after the reclamation is about to return, from the
\* cache, the new object that the first call after it constructed and its
\* caller holds.
C14_Witness ==
    \E t, u \in Threads : \E o \in held[u] :
        /\ pc[t] = "L89"
        /\ ValidKey(arg[t])
        /\ ReclaimedFor(cls[t], arg[t])
        /\ inst[t] = InstVal(o)

\* No thread, no running call and no class attribute refers to object o.
OnlyInCache(o) ==
    /\ \A t \in Threads : o \notin held[t]
    /\ \A t \in Threads : InstVal(o) \notin {inst[t], arg[t], hint[t], lhint[t]}
    /\ \A c \in Classes : cls_hint[c] # InstVal(o)

\* C15: an entry of the cache does not keep its instance alive: a live
\* instance that only the cache refers to can be reclaimed, and is reclaimed
\* in the end unless a call takes it from the cache first; once an instance
\* is reclaimed no entry refers to it, so the cache holds no entry for its
\* key until a new instance is stored; and whatever a call has got from the
\* cache, or a caller holds, is alive.
C15_WeakRegistry ==
    /\ [](\A o \in Objects : (heap[o].alive /\ OnlyInCache(o)) => ENABLED Reclaim(o))
    /\ [](\A e \in cls_cache : heap[e.obj].alive)
    /\ [](\A d \in Objects : ~heap[d].alive =>
            \A e \in EntriesFor(ClassName(heap[d].cls), heap[d].hint) : e.obj # d)
    /\ [](\A t \in Threads : inst[t] # NoneVal => heap[inst[t].v].alive)
    /\ [](\A t \in Threads : \A o \in held[t] : heap[o].alive)
    /\ \A o \in 1..MaxObjs :
          (o \in Objects /\ heap[o].alive /\ OnlyInCache(o))
          ~> (o \in Objects /\ (~heap[o].alive \/ ~OnlyInCache(o)))

\* Every reference to the one instance ever made for a key was dropped, the
\* instance was reclaimed, and the cache has no entry for the key.
C15_Witness ==
    \E d \in Objects :
        /\ ~heap[d].alive
        /\ ConstructedFor(heap[d].cls, heap[d].hint) = {d}
        /\ EntriesFor(ClassName(heap[d].cls), heap[d].hint) = {}
        /\ \E o \in Objects : heap[o].alive /\ OnlyInCache(o)

\* C16 (as claimed): the object a call on a class returns is an instance that
\* a call on that very class constructed, never one that belongs to another
\* class, so that two classes never share the sentinel of a key.
C16_RegistriesIndependent ==
    \A t \in SeqThreads : Returning(t) => heap[inst[t].v].cls = cls[t]

\* C16 (what holds): a call never returns an instance of a class that has
\* another name than the class called.
C16_IndependentByName ==
    \A t \in SeqThreads :
        Returning(t) => ClassName(heap[inst[t].v].cls) = ClassName(cls[t])

\* C17: a call of the class that __reduce__ or __reduce_ex__ of a held
\* instance gave, with the argument it gave, ends returning that very
\* instance.
C17_ReduceRoundTrip ==
    \A t \in SeqThreads :
        ( /\ Ending(t)
          /\ result[t].op \in {"reduce", "reduce_ex"}
          /\ result[t].self \in held[t]
          /\ cls[t] = result[t].cls
          /\ arg[t] = result[t].val )
        => Returning(t) /\ inst[t] = InstVal(result[t].self)

\* The instance of a subclass was reduced and the call that reconstructs it
\* is about to return it.
C17_Witness ==
    /\ Returning(1)
    /\ result[1].op \in {"reduce", "reduce_ex"}
    /\ result[1].self \in held[1]
    /\ result[1].cls = "Sub" /\ cls[1] = "Sub"
    /\ arg[1] = result[1].val /\ arg[1] \in TypeHints
    /\ inst[1] = InstVal(result[1].self)

\* C18: setting or deleting an attribute of an instance raises AttributeError,
\* and no step ever changes the hint or the class of an object once it is
\* constructed.
C18_Immutable ==
    /\ [](\A t \in SeqThreads :
            result[t].op \in {"setattr", "delattr"} => result[t].val = AttributeError)
    /\ [][\A o \in Objects :
            heap'[o].hint = heap[o].hint /\ heap'[o].cls = heap[o].cls]_vars

\* An assignment to an attribute of a held instance has raised, and the
\* instance has the hint it was constructed with.
C18_Witness ==
    /\ result[1].op = "setattr"
    /\ result[1].val = AttributeError
    /\ result[1].self \in held[1]
    /\ heap[result[1].self].hint \in TypeHints

\* C19: copy.copy and copy.deepcopy of an instance give the instance itself.
C19_CopyIsSelf ==
    \A t \in SeqThreads :
        result[t].op \in {"copy", "deepcopy"} => result[t].val = InstVal(result[t].self)

\* A held instance was deep-copied and the copy is the instance.
C19_Witness ==
    /\ result[1].op = "deepcopy"
    /\ result[1].self \in held[1]
    /\ result[1].val = InstVal(result[1].self)

\* C20: subscripting an instance and calling it, with whatever arguments, give
\* the instance itself.
C20_GetItemCallSelf ==
    \A t \in SeqThreads :
        result[t].op \in {"getitem", "call"} => result[t].val = InstVal(result[t].self)

\* A held instance was subscripted and the result is the instance.
C20_Witness ==
    /\ result[1].op = "getitem"
    /\ result[1].self \in held[1]
    /\ result[1].val = InstVal(result[1].self)

\* C21: bool(s) is False for every instance, whatever class and valid key it
\* was created for.
C21_Falsy ==
    \A t \in SeqThreads : result[t].op = "bool" => result[t].val = FalseVal

\* The truth value of a held instance of a subclass was taken and is False.
C21_Witness ==
    /\ result[1].op = "bool"
    /\ result[1].self \in held[1]
    /\ heap[result[1].self].cls = "Sub"
    /\ ValidKey(heap[result[1].self].hint)
    /\ result[1].val = FalseVal

\* C22: s == other is True exactly when other is an instance of the very
\* class of s with an equal hint, and False for every value that is no
\* instance; and two instances that compare equal have equal hashes.
C22_EqualityAndHash ==
    /\ \A t \in SeqThreads :
          result[t].op = "eq" =>
             LET s == heap[result[t].self]
                 other == result[t].obj
             IN  IF other.k = "inst"
                 THEN result[t].val = BoolVal(/\ s.cls = heap[other.v].cls
                                              /\ PyEq(s.hint, heap[other.v].hint))
                 ELSE result[t].val = FalseVal
    /\ \A o1, o2 \in Objects :
          Equals(InstVal(o1), InstVal(o2)) = TrueVal
             => __hash__(InstVal(o1)) = __hash__(InstVal(o2))

\* An instance of the base class was compared with an instance of a subclass
\* that has an equal hint, and they are unequal.
C22_Witness ==
    /\ result[1].op = "eq"
    /\ result[1].obj.k = "inst"
    /\ result[1].obj.v \in held[1]
    /\ heap[result[1].self].cls = "Sentinel"
    /\ heap[result[1].obj.v].cls = "Sub"
    /\ heap[result[1].self].hint = heap[result[1].obj.v].hint
    /\ result[1].val = FalseVal

\* obj is an instance of Sentinel or of a subclass.
IsSentinelInstance(obj) == obj.k = "inst"
\* obj is such an instance and its hint equals typ.
HasHint(obj, typ) == IsSentinelInstance(obj) /\ PyEq(heap[obj.v].hint, typ)

\* C23 as stated: is_sentinel(obj) tells whether obj is an instance, and
\* is_sentinel(obj, typ) tells whether obj is an instance whose hint equals
\* typ, for every typ passed.
C23_MembershipHelper ==
    \A t \in SeqThreads :
        result[t].op = "is_sentinel" =>
           IF result[t].args = << >>
           THEN result[t].val = BoolVal(IsSentinelInstance(result[t].obj))
           ELSE result[t].val = BoolVal(HasHint(result[t].obj, result[t].args[1]))

\* C23, amended: is_sentinel(obj) tells whether obj is an instance;
\* is_sentinel(obj, typ) with typ other than None tells whether obj is an
\* instance whose hint equals typ; is_sentinel(obj, None) is is_sentinel(obj).
C23_MembershipHelperTypNotNone ==
    \A t \in SeqThreads :
        result[t].op = "is_sentinel" =>
           IF result[t].args = << >> \/ result[t].args = <<NoneVal>>
           THEN result[t].val = BoolVal(IsSentinelInstance(result[t].obj))
           ELSE result[t].val = BoolVal(HasHint(result[t].obj, result[t].args[1]))

\* A held instance for a type was tested against another expected key, and the
\* answer is False.
C23_Witness ==
    /\ result[1].op = "is_sentinel"
    /\ result[1].obj \in HeldVals(1)
    /\ heap[result[1].obj.v].hint \in TypeHints
    /\ result[1].args = <<AnyHint>>
    /\ result[1].val = FalseVal

\* Threads that never subscribe.
NonSubscribers == Threads \ SeqThreads

\* C24 as stated: a call with a valid key as its argument, made by a thread
\* that never subscribes, does not raise and returns an instance whose hint
\* is that key, whatever the subscribing thread does meanwhile.
C24_ExplicitCallsIsolated ==
    \A t \in NonSubscribers :
        (Ending(t) /\ ValidKey(arg[t])) =>
            /\ Returning(t)
            /\ inst[t].k = "inst"
            /\ heap[inst[t].v].hint = arg[t]

\* Thread u is at line 81 having read the key it subscribed itself, and no
\* other thread has taken a step since that subscription.
ReadOwnSubscription(u) ==
    /\ pc[u] = "L81"
    /\ sub_of[u] = [c |-> cls[u], key |-> lhint[u]]

\* C25 as stated: a subscribed key that one call has read is not read by a
\* second call, although the first has not reset the slot yet; and a call
\* resets the slot only while it holds the key the call read or nothing, never
\* a key subscribed after its read.
C25_ConsumeOnce ==
    [][/\ \A t, u \in Threads :
             (/\ t # u
              /\ ReadOwnSubscription(u)
              /\ cls[t] = cls[u]
              /\ pc[t] = "L80"
              /\ pc'[t] # "L80") => lhint'[t] = OBJECT
       /\ \A t \in Threads :
             (pc[t] = "L81" /\ pc'[t] = "L82") => cls_hint[cls[t]] \in {lhint[t], OBJECT}
      ]_vars

\* How the call of thread t, at one of its ending statements, ends.
Outcome(t) ==
    IF Returning(t) THEN "returned"
    ELSE IF RaisingConflict(t) THEN "SubscriptedTypeError"
    ELSE "InvalidHintError"

\* C26 as stated: two calls that read the same subscribed key A and were passed
\* the same argument B, unequal to A, end the same way, whether or not an
\* instance for B was in the cache when each was made.
C26_ConflictIgnoresCache ==
    \A t, u \in Threads :
        ( /\ Ending(t) /\ Ending(u)
          /\ lhint[t] # OBJECT /\ lhint[u] = lhint[t]
          /\ arg[t] # OBJECT /\ arg[u] = arg[t]
          /\ ~PyEq(arg[t], lhint[t]) )
        => Outcome(t) = Outcome(u)

\* The entry thread t stores at line 102.
EntryOf(t) == [name |-> ClassName(cls[t]), hint |-> hint[t], obj |-> inst[t].v]

\* C27: an entry appears in the cache only by the step of line 102 of a thread
\* that holds the lock, stores the object it constructed, and finds no entry
\* for the key; an entry disappears only when its object is reclaimed, which
\* needs the object to be unreferenced; so an entry whose object is referenced
\* stays as it is, and no key ever has two entries.
C27_NoOverwrite ==
    [][/\ \A e \in cls_cache' \ cls_cache :
             \E t \in Threads :
                /\ pc[t] = "L102" /\ pc'[t] = "L103"
                /\ cls_lock
                /\ \A u \in Threads \ {t} : ~InLock(u)
                /\ e = EntryOf(t)
                /\ EntriesFor(e.name, e.hint) = {}
       /\ \A e \in cls_cache \ cls_cache' :
             /\ ~Referenced(e.obj)
             /\ heap[e.obj].alive /\ ~heap'[e.obj].alive
             /\ cls_cache' = cls_cache \ {e}
       /\ \A e \in cls_cache : Referenced(e.obj) => e \in cls_cache'
       /\ \A e, f \in cls_cache' : (e.name = f.name /\ PyEq(e.hint, f.hint)) => e = f
      ]_vars

\* A thread has stored its new instance under the lock while another thread,
\* whose lookup without the lock found nothing for the same key, waits for the
\* lock.
C27_Witness ==
    \E t, u \in Threads :
        /\ t # u
        /\ pc[t] = "L103" /\ EntryOf(t) \in cls_cache
        /\ pc[u] = "L98" /\ cls[u] = cls[t] /\ hint[u] = hint[t]

\* The class whose attribute _cls_hint a lookup on class c finds.
SlotOwner(c) == IF cls_hint[c] = ABSENT THEN "Sentinel" ELSE c

\* C28 as stated: a call that finds a subscribed key has read it from the slot
\* of the class it was made on, not from another class's; and its reset
\* empties the slot it has read the key from.
C28_SlotPerClass ==
    [][\A t \in SeqThreads :
          /\ (pc[t] = "L81") => SlotOwner(cls[t]) = cls[t]
          /\ (pc[t] = "L81" /\ pc'[t] = "L82") => cls_hint'[SlotOwner(cls[t])] = OBJECT
      ]_vars

\* C29 as stated: a call on a class with that class as its argument, nothing
\* being subscribed, raises InvalidHintError, and no instance has its own
\* class as its hint.
C29_OwnClassRejected ==
    /\ \A t \in SeqThreads :
          (Ending(t) /\ arg[t] = ClassVal(cls[t]) /\ lhint[t] = OBJECT)
             => RaisingInvalid(t)
    /\ \A o \in Objects : heap[o].hint # ClassVal(heap[o].cls)

\* C30: every entry of the cache is stored under the name of the class of its
\* object and under the hint of its object, no entry is stored under the
\* Sentinel class, an instance, Ellipsis, True, False or None, and a call
\* that returns from the lookup without the lock returns an instance whose
\* hint passes the check of line 95.
C30_CacheConsistent ==
    /\ \A e \in cls_cache :
          /\ e.obj \in Objects
          /\ e.name = ClassName(heap[e.obj].cls)
          /\ e.hint = heap[e.obj].hint
          /\ ~ReservedKey(e.hint)
    /\ \A t \in SeqThreads :
          pc[t] = "L89" =>
             /\ inst[t].k = "inst"
             /\ ~ReservedKey(heap[inst[t].v].hint)
             /\ ~IsInvalidHint(hint[t])

\* The cache holds an entry of the base class and one of the subclass, and a
\* call with an instance as its argument was rejected.
C30_Witness ==
    /\ \E e, f \in cls_cache : e.name = "Sentinel" /\ f.name = "Sub"
    /\ RaisingInvalid(1)
    /\ arg[1] \in HeldVals(1)

\* The call of thread t applies a reduce value.
Reconstructing(t) ==
    /\ result[t].op = "reconstruct"
    /\ cls[t] = result[t].cls
    /\ arg[t] = result[t].val

\* C31 as stated: the call that applies the reduce value of an instance for a
\* valid key returns an instance with that key as its hint and does not raise,
\* whatever is in the cache and in the slot when it is made.
C31_ReconstructNeverFails ==
    \A t \in SeqThreads :
        (Ending(t) /\ Reconstructing(t) /\ ValidKey(arg[t])) =>
            /\ Returning(t)
            /\ inst[t].k = "inst"
            /\ heap[inst[t].v].hint = arg[t]

\* The step is one of an operation on an instance or of is_sentinel: these are
\* the steps that report what the operation gave.
InstanceOpStep == \E t \in SeqThreads : result'[t] # result[t] /\ pc'[t] = "idle"
\* The step is the subscription cls[key] made by an idle thread.
SubscribeStep ==
    \E t \in SeqThreads, c \in Classes :
        /\ pc[t] = "idle" /\ pc' = pc
        /\ sub_of'[t] = [c |-> c, key |-> cls_hint'[c]]
        /\ cls_hint' = [cls_hint EXCEPT ![c] = cls_hint'[c]]
\* The step is line 81 of a creation call: its class's slot is reset.
ResetStep ==
    \E t \in SeqThreads :
        /\ pc[t] = "L81" /\ pc'[t] = "L82"
        /\ cls_hint' = [cls_hint EXCEPT ![cls[t]] = OBJECT]
\* The step is line 102 of a creation call.
InsertStep == \E t \in SeqThreads : pc[t] = "L102" /\ pc'[t] = "L103"

\* C32: a step of copy, deep copy, call or subscript of an instance, ==, hash,
\* bool, .hint, is_sentinel, reduce, or a failed setattr or delattr leaves the
\* cache and every slot as they are; a slot changes only by a class
\* subscription, which writes it, or by line 81 of a creation call, which
\* resets it; an entry is added to the cache only by line 102 of a creation
\* call; and a subscription leaves the cache and the objects alone.
C32_Frame ==
    [][/\ InstanceOpStep => (cls_cache' = cls_cache /\ cls_hint' = cls_hint)
       /\ cls_hint' # cls_hint => (SubscribeStep \/ ResetStep)
       /\ (\E c \in Classes : cls_hint'[c] \notin {cls_hint[c], OBJECT}) => SubscribeStep
       /\ cls_cache' # cls_cache => InsertStep
       /\ SubscribeStep => (cls_cache' = cls_cache /\ heap' = heap)
      ]_vars

\* An instance was subscripted while a key is pending in the slot and the
\* cache holds the instance's entry; both are still there.
C32_Witness ==
    /\ result[1].op = "getitem"
    /\ result[1].self \in held[1]
    /\ cls_hint["Sentinel"] \in TypeHints
    /\ \E e \in cls_cache : e.obj = result[1].self

\* The last thing thread t did before its running call, if any, was the
\* subscription result[t] tells of.
Subscribed(t) == result[t].op = "class_getitem" /\ sub_of[t] # NoSub

\* C33: a subscription gives the class it was made on and leaves its key in
\* that class's slot, whatever the slot held; it constructs nothing and
\* changes no entry of the cache and no other slot; and the call without
\* argument that follows a subscription of a valid key B returns an instance
\* whose hint is B, also when B overwrote another pending key.
C33_LastWriteWins ==
    /\ [](\A t \in SeqThreads :
            /\ (Subscribed(t) /\ pc[t] = "idle") =>
                  /\ result[t].cls = sub_of[t].c
                  /\ cls_hint[result[t].cls] = result[t].val
            /\ (Subscribed(t) /\ Ending(t) /\ arg[t] = OBJECT /\ ValidKey(result[t].val)) =>
                  /\ Returning(t)
                  /\ inst[t].k = "inst"
                  /\ heap[inst[t].v].hint = result[t].val)
    /\ [][\A t \in SeqThreads :
            result'[t] # result[t] =>
               /\ heap' = heap /\ cls_cache' = cls_cache /\ held' = held /\ pc' = pc
               /\ \A c \in Classes \ {result'[t].cls} : cls_hint'[c] = cls_hint[c]]_vars

\* Sentinel[A]; Sentinel[B]; Sentinel() with A and B different valid keys is
\* about to return the instance for B.
C33_Witness ==
    /\ Subscribed(1)
    /\ ValidKey(result[1].obj) /\ ValidKey(result[1].val)
    /\ result[1].obj # result[1].val
    /\ Returning(1) /\ arg[1] = OBJECT
    /\ heap[inst[1].v].hint = result[1].val

\* C34 as stated: with nothing subscribed, a call with an argument raises
\* InvalidHintError exactly when the argument is the Sentinel class, an
\* instance, Ellipsis, True, False or None; with any other argument, the
\* integers 0 and 1 among them, it returns an instance with that hint.
C34_RejectedExactly ==
    \A t \in SeqThreads :
        (Ending(t) /\ arg[t] # OBJECT /\ lhint[t] = OBJECT) =>
            IF ReservedKey(arg[t])
            THEN RaisingInvalid(t)
            ELSE /\ Returning(t)
                 /\ inst[t].k = "inst"
                 /\ heap[inst[t].v].hint = arg[t]

====
